---- MODULE Spec2Model ----
(***************************************************************************)
(* WebApiTester: a tree TestEngine -> WebSite -> Module -> Api of          *)
(* configuration units (src/src/types/Unit.ts).  TestEngine.start() walks  *)
(* the tree, builds one request per (WebSite, Module, Api) path on a clone *)
(* of the Api, hands it to HTTPClient.do (axios.request) and fans the      *)
(* outcome out to the four levels in the promise's then/catch handlers.    *)
(*                                                                         *)
(* Objects live in stores keyed by reference, so that two fields holding   *)
(* the same AxiosHeaders / Map / Array are one entry of the store:         *)
(*   unit    object id -> the unit's fields (Api clones included)          *)
(*   hstore  AxiosHeaders objects, qstore  Map objects,                    *)
(*   cstore  callback arrays,      astore  children arrays.                *)
(* opts holds the configuration objects the caller passed to the           *)
(* constructors, ret the outcome of the caller's last direct call of       *)
(* notify, fail or clone.                                                  *)
(***************************************************************************)
EXTENDS Integers, Sequences, FiniteSets, TLC

VARIABLES unit, hstore, qstore, cstore, astore, started, reqs, log, calls,
          opts, ret

vars == <<unit, hstore, qstore, cstore, astore, started, reqs, log, calls,
          opts, ret>>

\* ------------------------------------------------------------------ bounds
\* Configuration calls the caller makes (addHeader, addQuery, add*Callback,
\* add children, field assignments) in one run of the model.
MaxCalls == 2
\* (WebSite, Module, Api) paths a tree may hold when children are added.
MaxPaths == 2

\* ------------------------------------------------------------- the universe
Engine == "E"
Sites == {"S1", "S2"}
Modules == {"M1", "M2"}
Apis == {"A1", "A2"}
Units == {Engine} \cup Sites \cup Modules \cup Apis

HeaderNames == {"H", "h", "K"}
QueryKeys == {"p", "q"}
Values == {"a", "b"}
PathFragments == {"", "/s", "/e", "https://x"}

\* HTTP statuses a server answers with; 0 stands for no answer at all
\* (connection refused, timeout): axios then rejects without a response.
Answers == {0, 200, 204, 404}
\* The status the default verify accepts.
HttpOk == 200

\* Caller-supplied callbacks: "f" returns normally, "boom" throws.
Callbacks == {"f", "boom"}
\* error_callback: the constructor's default no-op, or one that throws.
ErrorCallbacks == {"noop", "boomE"}
\* verify: the default (status === 200), one accepting every response,
\* one that throws.
Verifies == {"default", "always", "boomV"}

Throws(cb) == cb \in {"boom", "boomE", "boomV"}

\* ---------------------------------------------------------------- helpers
EmptyMap == <<>>

\* A set() that keeps the value of a key already present.
MapSetIfAbsent(m, key, value) ==
    [k \in DOMAIN m \cup {key} |-> IF k \in DOMAIN m THEN m[k] ELSE value]

\* Map.prototype.set: keys are compared exactly.
MapSet(m, key, value) ==
    [k \in DOMAIN m \cup {key} |-> IF k = key THEN value ELSE m[k]]

RECURSIVE MapSetAll(_, _, _)
\* target.forEach((value, key) => m.set(key, value)) over the keys `todo`.
MapSetAll(m, target, todo) ==
    IF todo = {} THEN m
    ELSE LET k == CHOOSE x \in todo : TRUE
         IN MapSetAll(MapSet(m, k, target[k]), target, todo \ {k})

\* AxiosHeaders compares header names case-insensitively (normalizeHeader
\* lower-cases the name before findKey).
Lower(name) == IF name = "H" THEN "h" ELSE IF name = "K" THEN "k" ELSE name

\* AxiosHeaders.prototype.set(name, value): an existing entry whose name
\* matches case-insensitively is overwritten under its existing spelling,
\* otherwise the entry is created under the given spelling.
AxiosHeadersSet(h, name, value) ==
    LET found == {k \in DOMAIN h : Lower(k) = Lower(name)}
        key == IF found = {} THEN name ELSE CHOOSE k \in found : TRUE
    IN [k \in DOMAIN h \cup {key} |-> IF k = key THEN value ELSE h[k]]

RECURSIVE AxiosHeadersSetAll(_, _, _)
\* AxiosHeaders.prototype.set(otherHeaders): set() of every entry.
AxiosHeadersSetAll(h, target, todo) ==
    IF todo = {} THEN h
    ELSE LET k == CHOOSE x \in todo : TRUE
         IN AxiosHeadersSetAll(AxiosHeadersSet(h, k, target[k]), target, todo \ {k})

\* AxiosHeaders.prototype.concat(target): builds and RETURNS a new
\* AxiosHeaders (static concat: new this(first), then set(target)); the
\* receiver is not modified.  `ret` is the returned object, `self` the
\* receiver after the call.
AxiosHeadersConcat(self, target) ==
    [ret |-> AxiosHeadersSetAll(self, target, DOMAIN target), self |-> self]

\* ------------------------------------------------------------ construction
\* The fields a constructor sets when only the required options are given:
\* a fresh AxiosHeaders, Map and callback arrays of its own (named after the
\* unit), the no-op error_callback, a fresh children array.
NewUnit(kind, id, path) ==
    [kind |-> kind, path |-> path, headers |-> id, querys |-> id,
     success_callbacks |-> id \o ".success", fail_callbacks |-> id \o ".fail",
     error_callback |-> "noop", children |-> id,
     name |-> IF kind = "engine" THEN "TestEngine" ELSE "",
     description |-> IF kind = "engine" THEN "TestEngine" ELSE "",
     method |-> "-", verify |-> "-", data |-> "-"]

\* The values a data option may take, named by their JavaScript literal:
\* not given, the falsy 0, a non-empty payload.
DataOptions == {"undefined", "0", "payload"}
Falsy(v) == v \in {"undefined", "0", "", "false", "null"}

\* new Api({path, method, data}): verify defaults to status === 200;
\* this.data = data || {} puts the empty object for every falsy data.
NewApi(id, path, method, data) ==
    [NewUnit("api", id, path) EXCEPT
        !.children = "-", !.method = method, !.verify = "default",
        !.data = IF Falsy(data) THEN "{}" ELSE data]

KindOf(u) ==
    IF u = Engine THEN "engine"
    ELSE IF u \in Sites THEN "site"
    ELSE IF u \in Modules THEN "module" ELSE "api"

\* The configuration objects of a caller who gives the paths pathOf, the
\* methods GET and POST, and a body for the second endpoint only.
Options(pathOf) ==
    [u \in Units |->
        [path |-> pathOf[u],
         method |-> IF u = "A1" THEN "GET" ELSE IF u = "A2" THEN "POST" ELSE "-",
         data |-> IF u = "A2" THEN "payload" ELSE "undefined",
         children |-> "undefined"]]

\* The units constructed from the configuration objects o.  The engine's
\* constructor does not read a path option: this.path = "".
ConstructedFrom(o) ==
    [u \in Units |->
        IF u = Engine THEN NewUnit("engine", u, "")
        ELSE IF u \in Apis THEN NewApi(u, o[u].path, o[u].method, o[u].data)
        ELSE NewUnit(KindOf(u), u, o[u].path)]

Constructed(pathOf) == ConstructedFrom(Options(pathOf))

\* The value record of no value.
NoArg == [t |-> "none", status |-> 0, d |-> 0, by |-> "-"]

\* No direct call was made yet.
NoReturn == [call |-> "none", unit |-> "-", value |-> NoArg, events |-> <<>>,
             result |-> <<>>, threw |-> "-"]

CallbackRefs == {u \o ".success" : u \in Units} \cup {u \o ".fail" : u \in Units}

\* The state after construction from the configuration objects o, with the
\* children arrays the constructors were given (kids).
InitFrom(o, kids) ==
    /\ unit = ConstructedFrom(o)
    /\ hstore = [u \in Units |-> EmptyMap]
    /\ qstore = [u \in Units |-> EmptyMap]
    /\ cstore = [r \in CallbackRefs |-> <<>>]
    /\ astore = kids
    /\ started = FALSE
    /\ reqs = <<>>
    /\ log = <<>>
    /\ calls = 0
    /\ opts = o
    /\ ret = NoReturn

\* The same for a caller who gives the paths pathOf.
InitWith(pathOf, kids) == InitFrom(Options(pathOf), kids)

DefaultPaths == [u \in Units |->
    IF u \in Sites THEN "/s" ELSE IF u \in Apis THEN "/e" ELSE ""]

\* Two sites, each with one module and one endpoint.
TwoSites ==
    [u \in {Engine} \cup Sites \cup Modules |->
        IF u = Engine THEN <<"S1", "S2">>
        ELSE IF u = "S1" THEN <<"M1">>
        ELSE IF u = "S2" THEN <<"M2">>
        ELSE IF u = "M1" THEN <<"A1">> ELSE <<"A2">>]

\* One site, one module, one endpoint.
OneChain ==
    [u \in {Engine} \cup Sites \cup Modules |->
        IF u = Engine THEN <<"S1">>
        ELSE IF u = "S1" THEN <<"M1">>
        ELSE IF u = "M1" THEN <<"A1">> ELSE <<>>]

\* --------------------------------------------------- configuration calls
\* addHeader(key, value): this.headers.set(key, value).
addHeader(u, key, value) ==
    /\ calls < MaxCalls
    /\ hstore' = [hstore EXCEPT ![unit[u].headers] = AxiosHeadersSet(@, key, value)]
    /\ calls' = calls + 1
    /\ UNCHANGED <<opts, ret, unit, qstore, cstore, astore, started, reqs, log>>

\* addQuery(key, value): this.querys.set(key, value).
addQuery(u, key, value) ==
    /\ calls < MaxCalls
    /\ qstore' = [qstore EXCEPT ![unit[u].querys] = MapSet(@, key, value)]
    /\ calls' = calls + 1
    /\ UNCHANGED <<opts, ret, unit, hstore, cstore, astore, started, reqs, log>>

\* addSuccessCallback(callback): this.success_callbacks.push(callback).
addSuccessCallback(u, cb) ==
    /\ calls < MaxCalls
    /\ cstore' = [cstore EXCEPT ![unit[u].success_callbacks] = Append(@, cb)]
    /\ calls' = calls + 1
    /\ UNCHANGED <<opts, ret, unit, hstore, qstore, astore, started, reqs, log>>

\* addFailCallback(callback): this.fail_callbacks.push(callback).
addFailCallback(u, cb) ==
    /\ calls < MaxCalls
    /\ cstore' = [cstore EXCEPT ![unit[u].fail_callbacks] = Append(@, cb)]
    /\ calls' = calls + 1
    /\ UNCHANGED <<opts, ret, unit, hstore, qstore, astore, started, reqs, log>>

\* The caller assigns the public field path of a unit (the only way an engine
\* gets a path other than "").
AssignPath(u, p) ==
    /\ calls < MaxCalls
    /\ unit' = [unit EXCEPT ![u].path = p]
    /\ calls' = calls + 1
    /\ UNCHANGED <<opts, ret, hstore, qstore, cstore, astore, started, reqs, log>>

\* The caller assigns the public field error_callback of a unit (equally the
\* constructor's error_callback option).
AssignErrorCallback(u, cb) ==
    /\ calls < MaxCalls
    /\ unit' = [unit EXCEPT ![u].error_callback = cb]
    /\ calls' = calls + 1
    /\ UNCHANGED <<opts, ret, hstore, qstore, cstore, astore, started, reqs, log>>

\* The caller assigns the public field verify of an Api (equally the
\* constructor's verify option).
AssignVerify(a, v) ==
    /\ calls < MaxCalls
    /\ unit' = [unit EXCEPT ![a].verify = v]
    /\ calls' = calls + 1
    /\ UNCHANGED <<opts, ret, hstore, qstore, cstore, astore, started, reqs, log>>
\* push of every element of `xs`, in order, onto the children array of u.
PushAll(u, xs) ==
    astore' = [astore EXCEPT ![unit[u].children] = @ \o xs]

\* The attachment positions of the tree: <<i, j, k>> for the k-th api of the
\* j-th module of the i-th site, following the children arrays.
PositionsIn(u, as) ==
    LET ws == as[u[Engine].children]
    IN UNION {UNION {{<<i, j, k>> :
                        k \in DOMAIN as[u[as[u[ws[i]].children][j]].children]} :
                     j \in DOMAIN as[u[ws[i]].children]} :
              i \in DOMAIN ws}

Positions == PositionsIn(unit, astore)

\* addWebSites(webSites): pushes each onto this.webSites.
addWebSites(ws) ==
    /\ calls < MaxCalls
    /\ PushAll(Engine, ws)
    /\ Cardinality(PositionsIn(unit, astore')) <= MaxPaths
    /\ calls' = calls + 1
    /\ UNCHANGED <<opts, ret, unit, hstore, qstore, cstore, started, reqs, log>>

\* addModules(modules): pushes each onto this.modules.
addModules(s, ms) ==
    /\ calls < MaxCalls
    /\ PushAll(s, ms)
    /\ Cardinality(PositionsIn(unit, astore')) <= MaxPaths
    /\ calls' = calls + 1
    /\ UNCHANGED <<opts, ret, unit, hstore, qstore, cstore, started, reqs, log>>

\* addApis(apis): pushes each onto this.apis.
addApis(m, as) ==
    /\ calls < MaxCalls
    /\ PushAll(m, as)
    /\ Cardinality(PositionsIn(unit, astore')) <= MaxPaths
    /\ calls' = calls + 1
    /\ UNCHANGED <<opts, ret, unit, hstore, qstore, cstore, started, reqs, log>>

\* ------------------------------------------------------------------ start
\* The identity of the object `new Api(...)` creates in clone() for the
\* d-th dispatch.
CloneId(api, d) == api \o "#" \o ToString(d)

\* Api.clone(), mis-written to hand back the receiver.
ApiCloneAlias(u, api, d) == [id |-> api, unit |-> u]

\* Api.clone(), mis-written to pass on path, method and the collections
\* only, leaving the handlers and the body to the constructor's defaults.
ApiCloneBare(u, api, d) ==
    [id |-> CloneId(api, d),
     unit |-> u @@ (CloneId(api, d) :>
                [u[api] EXCEPT !.error_callback = "noop", !.verify = "default",
                               !.data = "{}"])]

\* Api.clone(): a new Api built from the receiver's fields; every option is
\* passed on, so the new object holds the same values and the same
\* AxiosHeaders, Map and array references (objects and functions are never
\* replaced by the constructor's defaults, a falsy body is).  `id` is the
\* returned object, `unit` the object store with it.
ApiClone(u, api, d) ==
    [id |-> CloneId(api, d),
     unit |-> u @@ (CloneId(api, d) :>
                [u[api] EXCEPT !.data = IF Falsy(@) THEN "{}" ELSE @])]

RECURSIVE ConcatEach(_, _, _, _)
\* [..levels].forEach(level => header.concat(level.headers)): the receiver
\* `header` after the loop.
ConcatEach(header, u, hs, levels) ==
    IF levels = <<>> THEN header
    ELSE ConcatEach(AxiosHeadersConcat(header, hs[u[Head(levels)].headers]).self,
                    u, hs, Tail(levels))

RECURSIVE JoinPathsSlash(_, _)
\* levels.map(level => level.path).join("/").
JoinPathsSlash(u, levels) ==
    IF levels = <<>> THEN ""
    ELSE IF Len(levels) = 1 THEN u[Head(levels)].path
    ELSE u[Head(levels)].path \o "/" \o JoinPathsSlash(u, Tail(levels))

RECURSIVE JoinPaths(_, _)
\* levels.map(level => level.path).join("").
JoinPaths(u, levels) ==
    IF levels = <<>> THEN ""
    ELSE u[Head(levels)].path \o JoinPaths(u, Tail(levels))

RECURSIVE SetEachLeafFirst(_, _, _, _)
\* The same loop over the levels in the order api, module, webSite, this.
SetEachLeafFirst(params, u, qs, levels) ==
    IF levels = <<>> THEN params
    ELSE LET q == qs[u[levels[Len(levels)]].querys]
         IN SetEachLeafFirst(MapSetAll(params, q, DOMAIN q), u, qs,
                             SubSeq(levels, 1, Len(levels) - 1))

RECURSIVE SetEach(_, _, _, _)
\* levels.forEach(level => level.querys.forEach((v, k) => params.set(k, v))).
SetEach(params, u, qs, levels) ==
    IF levels = <<>> THEN params
    ELSE LET q == qs[u[Head(levels)].querys]
         IN SetEach(MapSetAll(params, q, DOMAIN q), u, qs, Tail(levels))

\* HTTPClient.do(api): the configuration handed to axios.request.
HTTPClient_do(u, hs, qs, api) ==
    [method |-> u[api].method, url |-> u[api].path,
     headers |-> hs[u[api].headers], params |-> qs[u[api].querys],
     data |-> u[api].data]

NoValue(d) == [t |-> "none", status |-> 0, d |-> d, by |-> "-"]

\* The body of the innermost forEach written to merge the querys into the
\* map the clone got from clone(), which is the map of the Api itself,
\* instead of a new Map.
DispatchOneInPlace(st, webSite, module, api) ==
    LET d == Len(st.reqs) + 1
        levels == <<Engine, webSite, module, api>>
        c == ApiClone(st.unit, api, d)
        capi == c.id
        href == "headers#" \o ToString(d)
        header == ConcatEach(EmptyMap, c.unit, st.hstore, levels)
        hs1 == st.hstore @@ (href :> header)
        u1 == [c.unit EXCEPT ![capi].headers = href]
        u2 == [u1 EXCEPT ![capi].path = JoinPaths(u1, levels)]
        params == SetEach(st.qstore[u2[capi].querys], u2, st.qstore, levels)
        qs1 == [st.qstore EXCEPT ![u2[capi].querys] = params]
    IN [unit |-> u2, hstore |-> hs1, qstore |-> qs1,
        reqs |-> Append(st.reqs,
            [webSite |-> webSite, module |-> module, api |-> api, capi |-> capi,
             sent |-> HTTPClient_do(u2, hs1, qs1, capi),
             state |-> "pending", settled |-> NoValue(d), value |-> NoValue(d)])]

\* The body of the innermost forEach of start() for one (webSite, module,
\* api): clone, merge headers, path and querys into the clone, send.  `st`
\* holds the stores and the requests issued so far.
DispatchOne(st, webSite, module, api) ==
    LET d == Len(st.reqs) + 1
        levels == <<Engine, webSite, module, api>>
        c == ApiClone(st.unit, api, d)
        capi == c.id
        href == "headers#" \o ToString(d)
        qref == "params#" \o ToString(d)
        header == ConcatEach(EmptyMap, c.unit, st.hstore, levels)
        hs1 == st.hstore @@ (href :> header)
        u1 == [c.unit EXCEPT ![capi].headers = href]
        u2 == [u1 EXCEPT ![capi].path = JoinPaths(u1, levels)]
        params == SetEach(EmptyMap, u2, st.qstore, levels)
        qs1 == st.qstore @@ (qref :> params)
        u3 == [u2 EXCEPT ![capi].querys = qref]
    IN [unit |-> u3, hstore |-> hs1, qstore |-> qs1,
        reqs |-> Append(st.reqs,
            [webSite |-> webSite, module |-> module, api |-> api, capi |-> capi,
             sent |-> HTTPClient_do(u3, hs1, qs1, capi),
             state |-> "pending", settled |-> NoValue(d), value |-> NoValue(d)])]

RECURSIVE EachApiOnce(_, _, _, _)
\* The loop over module.apis, skipping an api that was dispatched before.
EachApiOnce(st, webSite, module, apis) ==
    IF apis = <<>> THEN st
    ELSE EachApiOnce(
            IF \E d \in DOMAIN st.reqs : st.reqs[d].api = Head(apis) THEN st
            ELSE DispatchOne(st, webSite, module, Head(apis)),
            webSite, module, Tail(apis))

RECURSIVE EachApiAwait(_, _, _, _)
\* The loop over module.apis, written to wait for the completion of a
\* request before it goes on: nothing more is issued while one is pending.
EachApiAwait(st, webSite, module, apis) ==
    IF apis = <<>> \/ \E d \in DOMAIN st.reqs : st.reqs[d].state = "pending"
    THEN st
    ELSE EachApiAwait(DispatchOne(st, webSite, module, Head(apis)),
                      webSite, module, Tail(apis))

RECURSIVE EachApi(_, _, _, _)
\* module.apis.forEach(api => ...).
EachApi(st, webSite, module, apis) ==
    IF apis = <<>> THEN st
    ELSE EachApi(DispatchOne(st, webSite, module, Head(apis)),
                 webSite, module, Tail(apis))

RECURSIVE EachModule(_, _, _, _)
\* webSite.modules.forEach(module => ...); `as` is the store of children
\* arrays.
EachModule(st, as, webSite, modules) ==
    IF modules = <<>> THEN st
    ELSE EachModule(EachApi(st, webSite, Head(modules),
                            as[st.unit[Head(modules)].children]),
                    as, webSite, Tail(modules))

RECURSIVE EachSite(_, _, _)
\* this.webSites.forEach(webSite => ...).
EachSite(st, as, sites) ==
    IF sites = <<>> THEN st
    ELSE EachSite(EachModule(st, as, Head(sites), as[st.unit[Head(sites)].children]),
                  as, Tail(sites))

\* TestEngine.start(): synchronous; every request is issued before the call
\* returns and before any handler runs.  The model calls it once.
start ==
    /\ ~started
    /\ LET st == EachSite([unit |-> unit, hstore |-> hstore, qstore |-> qstore,
                           reqs |-> reqs],
                          astore, astore[unit[Engine].children])
       IN /\ unit' = st.unit
          /\ hstore' = st.hstore
          /\ qstore' = st.qstore
          /\ reqs' = st.reqs
    /\ started' = TRUE
    /\ UNCHANGED <<opts, ret, cstore, astore, log, calls>>
\* ---------------------------------------------------------- the transport
Response(d, status) == [t |-> "response", status |-> status, d |-> d, by |-> "-"]
AxiosError(d, status) == [t |-> "AxiosError", status |-> status, d |-> d, by |-> "-"]
Thrown(d, cb) == [t |-> "thrown", status |-> 0, d |-> d, by |-> cb]

\* axios.request is called without a validateStatus option, so the promise
\* fulfils for a 2xx status only and rejects for every other answer.
ValidateStatus(status) == status >= 200 /\ status < 300

\* The promise returned by client.do(capi) settles: the server answered the
\* d-th request with `status`, or not at all.  A fulfilled promise queues
\* the then-handler, a rejected one passes through to the catch-handler.
\* `settled` keeps the outcome of the transport call, `value` is what the
\* next handler of the chain receives.
Settle(d, status) ==
    /\ d \in DOMAIN reqs
    /\ reqs[d].state = "pending"
    /\ reqs' = [reqs EXCEPT ![d] =
            IF ValidateStatus(status)
            THEN [@ EXCEPT !.state = "then", !.settled = Response(d, status),
                           !.value = Response(d, status)]
            ELSE [@ EXCEPT !.state = "catch", !.settled = AxiosError(d, status),
                           !.value = AxiosError(d, status)]]
    /\ UNCHANGED <<opts, ret, unit, hstore, qstore, cstore, astore, started, log, calls>>

\* ------------------------------------------------------------- the fan-out
Event(d, u, op, cb, arg) == [d |-> d, unit |-> u, op |-> op, cb |-> cb, arg |-> arg]

\* What the callback cb returns when called with value.
Returned(cb, value) == [by |-> cb, of |-> value]

RECURSIVE ForEachCallback(_, _, _, _, _)
\* callbacks.forEach(callback => result.push(callback(value))): the calls
\* made, the values pushed, and whether one threw (which ends the loop).
ForEachCallback(d, u, op, cbs, value) ==
    IF cbs = <<>> THEN [events |-> <<>>, result |-> <<>>, threw |-> "-"]
    ELSE LET e == Event(d, u, op, Head(cbs), value)
         IN IF Throws(Head(cbs))
            THEN [events |-> <<e>>, result |-> <<>>, threw |-> Head(cbs)]
            ELSE LET rest == ForEachCallback(d, u, op, Tail(cbs), value)
                 IN [events |-> <<e>> \o rest.events,
                     result |-> <<Returned(Head(cbs), value)>> \o rest.result,
                     threw |-> rest.threw]

\* unit.notify(value): every success callback, in array order; returns
\* the result array unless a callback threw.
notify(d, u, value) ==
    LET r == ForEachCallback(d, u, "success_callback",
                             cstore[unit[u].success_callbacks], value)
    IN [events |-> <<Event(d, u, "notify", "-", value)>> \o r.events,
        result |-> IF r.threw = "-" THEN r.result ELSE <<>>, threw |-> r.threw]

\* unit.fail(value): every fail callback, in array order; returns the
\* result array unless a callback threw.
fail(d, u, value) ==
    LET r == ForEachCallback(d, u, "fail_callback",
                             cstore[unit[u].fail_callbacks], value)
    IN [events |-> <<Event(d, u, "fail", "-", value)>> \o r.events,
        result |-> IF r.threw = "-" THEN r.result ELSE <<>>, threw |-> r.threw]

\* unit.error_callback(error).
error_callback(d, u, value) ==
    [events |-> <<Event(d, u, "error_callback", unit[u].error_callback, value)>>,
     threw |-> IF Throws(unit[u].error_callback) THEN unit[u].error_callback ELSE "-"]

\* api.verify(response).
verify(d, a, value) ==
    [events |-> <<Event(d, a, "verify", unit[a].verify, value)>>,
     threw |-> IF Throws(unit[a].verify) THEN unit[a].verify ELSE "-",
     verdict |-> \/ unit[a].verify = "always"
                 \/ unit[a].verify = "default" /\ value.status = HttpOk]

\* The handlers closing over the variables of the last iteration of the
\* loops instead of their own.
FanOutOrderLast(d) ==
    <<reqs[Len(reqs)].api, reqs[Len(reqs)].module, reqs[Len(reqs)].webSite, Engine>>

\* The levels a handler of the d-th dispatch calls, in the order it calls
\* them: api, module, webSite, this.
FanOutOrder(d) == <<reqs[d].api, reqs[d].module, reqs[d].webSite, Engine>>

RECURSIVE InOrder(_, _, _, _)
\* The statements op(level_1); op(level_2); ... up to the first that throws.
\* op is "notify", "fail" or "error_callback".
InOrder(d, op, levels, value) ==
    IF levels = <<>> THEN [events |-> <<>>, threw |-> "-"]
    ELSE LET r == IF op = "notify" THEN notify(d, Head(levels), value)
                  ELSE IF op = "fail" THEN fail(d, Head(levels), value)
                  ELSE error_callback(d, Head(levels), value)
         IN IF r.threw # "-" THEN [events |-> r.events, threw |-> r.threw]
            ELSE LET rest == InOrder(d, op, Tail(levels), value)
                 IN [events |-> r.events \o rest.events, threw |-> rest.threw]

\* The then-handler of the d-th dispatch: verify, then notify or fail on the
\* four levels.
ThenHandler(d) ==
    LET response == reqs[d].value
        v == verify(d, reqs[d].api, response)
    IN IF v.threw # "-" THEN [events |-> v.events, threw |-> v.threw]
       ELSE LET r == InOrder(d, IF v.verdict THEN "notify" ELSE "fail",
                             FanOutOrder(d), response)
            IN [events |-> v.events \o r.events, threw |-> r.threw]

\* The then-handler written to yield between its statements (an await in
\* front of each call): one step runs verify, or the call on the next
\* level, and other handlers may run in between.
RunThenStepwise(d) ==
    /\ d \in DOMAIN reqs
    /\ reqs[d].state = "then"
    /\ LET ran == Len(SelectSeq(log, LAMBDA e :
                        e.d = d /\ e.op \in {"verify", "notify", "fail"}))
           response == reqs[d].value
           v == verify(d, reqs[d].api, response)
           r == IF ran = 0 THEN [events |-> v.events, threw |-> v.threw]
                ELSE InOrder(d, IF v.verdict THEN "notify" ELSE "fail",
                             <<FanOutOrder(d)[ran]>>, response)
       IN /\ log' = log \o r.events
          /\ reqs' = [reqs EXCEPT ![d] =
                IF r.threw # "-"
                THEN [@ EXCEPT !.state = "catch", !.value = Thrown(d, r.threw)]
                ELSE IF ran = 4 THEN [@ EXCEPT !.state = "done"] ELSE @]
    /\ UNCHANGED <<opts, ret, unit, hstore, qstore, cstore, astore, started, calls>>

\* The microtask running the then-handler.  An exception thrown in it
\* rejects the promise the catch-handler is attached to.
RunThen(d) ==
    /\ d \in DOMAIN reqs
    /\ reqs[d].state = "then"
    /\ LET r == ThenHandler(d)
       IN /\ log' = log \o r.events
          /\ reqs' = [reqs EXCEPT ![d] =
                IF r.threw # "-"
                THEN [@ EXCEPT !.state = "catch", !.value = Thrown(d, r.threw)]
                ELSE [@ EXCEPT !.state = "done"]]
    /\ UNCHANGED <<opts, ret, unit, hstore, qstore, cstore, astore, started, calls>>

\* The catch-handler written to report the error to the endpoint only.
CatchHandlerLeafOnly(d) ==
    InOrder(d, "error_callback", <<reqs[d].api>>, reqs[d].value)

\* The catch-handler of the d-th dispatch: error_callback on the four levels.
CatchHandler(d) == InOrder(d, "error_callback", FanOutOrder(d), reqs[d].value)

\* The microtask running the catch-handler.  An exception thrown in it
\* leaves the chain's last promise rejected with no handler.
RunCatch(d) ==
    /\ d \in DOMAIN reqs
    /\ reqs[d].state = "catch"
    /\ LET r == CatchHandler(d)
       IN /\ log' = log \o r.events
          /\ reqs' = [reqs EXCEPT ![d].state =
                IF r.threw # "-" THEN "unhandled" ELSE "done"]
    /\ UNCHANGED <<opts, ret, unit, hstore, qstore, cstore, astore, started, calls>>

\* ---------------------------------------------------------- specifications
Dispatches == 1..MaxPaths

Completion ==
    \/ \E d \in Dispatches, status \in Answers : Settle(d, status)
    \/ \E d \in Dispatches : RunThen(d)
    \/ \E d \in Dispatches : RunCatch(d)

\* Fan-out: two sites with one module and one endpoint each; the caller
\* registers callbacks, error callbacks and verify predicates, then starts.
Init == InitWith(DefaultPaths, TwoSites)

Next ==
    \/ ~started /\ \E u \in Units, cb \in Callbacks : addSuccessCallback(u, cb)
    \/ ~started /\ \E u \in Units, cb \in Callbacks : addFailCallback(u, cb)
    \/ ~started /\ \E u \in Units, cb \in ErrorCallbacks \ {"noop"} : AssignErrorCallback(u, cb)
    \/ ~started /\ \E a \in Apis, v \in Verifies \ {"default"} : AssignVerify(a, v)
    \/ start
    \/ Completion

Spec == Init /\ [][Next]_vars

\* Merge: one site, one module, one endpoint; the caller sets headers, query
\* parameters and paths on the four levels, then starts.
ChainUnits == {Engine, "S1", "M1", "A1"}

InitMerge == InitWith(DefaultPaths, OneChain)

NextMerge ==
    \/ ~started /\ \E u \in ChainUnits, k \in HeaderNames, v \in Values : addHeader(u, k, v)
    \/ ~started /\ \E u \in ChainUnits, k \in QueryKeys, v \in Values : addQuery(u, k, v)
    \/ ~started /\ \E u \in ChainUnits, p \in PathFragments : AssignPath(u, p)
    \/ start
    \/ Completion

SpecMerge == InitMerge /\ [][NextMerge]_vars

\* Tree: the engine holds both sites, each module one endpoint; the caller
\* attaches modules, endpoints and further sites, then starts.
DetachedModules ==
    [u \in {Engine} \cup Sites \cup Modules |->
        IF u = Engine THEN <<"S1", "S2">>
        ELSE IF u = "M1" THEN <<"A1">>
        ELSE IF u = "M2" THEN <<"A2">> ELSE <<>>]

\* The arrays of one or two elements of S.
Arrays(S) == {<<x>> : x \in S} \cup {<<x, y>> : x \in S, y \in S}

InitTree == InitWith(DefaultPaths, DetachedModules)

NextTree ==
    \/ ~started /\ \E ws \in Arrays(Sites) : addWebSites(ws)
    \/ ~started /\ \E s \in Sites, ms \in Arrays(Modules) : addModules(s, ms)
    \/ ~started /\ \E m \in Modules, as \in Arrays(Apis) : addApis(m, as)
    \/ start
    \/ Completion

SpecTree == InitTree /\ [][NextTree]_vars

\* ---------------------------------------------- constructors given arrays
Parents == {Engine} \cup Sites \cup Modules

\* The arrays the caller holds in variables of its own and passes as the
\* webSites, modules or apis option of constructors.
CallerArrays == {"caller.webSites", "caller.modules", "caller.apis"}

\* The caller's array that fits the children option of u.
CallerArray(u) ==
    IF u = Engine THEN "caller.webSites"
    ELSE IF u \in Sites THEN "caller.modules" ELSE "caller.apis"

\* this.webSites = webSites || [], this.modules = modules || [],
\* this.apis = apis || []: a parent constructed with a children option
\* keeps the very array it was given, one constructed without makes its own.
WithChildren(u, given) ==
    [id \in Units |->
        IF id \in given THEN [u[id] EXCEPT !.children = CallerArray(id)] ELSE u[id]]

\* The state after the caller constructed the parents in `given` with its
\* own arrays as children option and the others without one.
InitAlias ==
    \E given \in SUBSET Parents :
        /\ unit = WithChildren(Constructed(DefaultPaths), given)
        /\ hstore = [u \in Units |-> EmptyMap]
        /\ qstore = [u \in Units |-> EmptyMap]
        /\ cstore = [r \in CallbackRefs |-> <<>>]
        /\ astore = [u \in Parents |-> <<>>]
                        @@ ("caller.webSites" :> <<"S1">>)
                        @@ ("caller.modules" :> <<"M1">>)
                        @@ ("caller.apis" :> <<"A1">>)
        /\ started = FALSE
        /\ reqs = <<>>
        /\ log = <<>>
        /\ calls = 0
        /\ opts = [u \in Units |->
                    IF u \in given
                    THEN [Options(DefaultPaths)[u] EXCEPT !.children = CallerArray(u)]
                    ELSE Options(DefaultPaths)[u]]
        /\ ret = NoReturn

NextAlias ==
    \/ \E w \in Sites : addWebSites(<<w>>)
    \/ \E s \in Sites, m \in Modules : addModules(s, <<m>>)
    \/ \E m \in Modules, a \in Apis : addApis(m, <<a>>)

SpecAlias == InitAlias /\ [][NextAlias]_vars

\* ------------------------------------------------- constructor options
\* The members of the enum HTTPMethod the caller chooses from.
Methods == {"GET", "POST", "PUT"}

\* The state after construction by a caller who passes a configuration
\* object with a path to the TestEngine constructor and chooses the method
\* and the body of the endpoint.
InitConstruct ==
    \E p \in PathFragments, m \in Methods, data \in DataOptions :
        InitFrom([Options(DefaultPaths) EXCEPT
                    ![Engine].path = p, !["A1"].method = m, !["A1"].data = data],
                 OneChain)

NextConstruct ==
    \/ start
    \/ Completion

SpecConstruct == InitConstruct /\ [][NextConstruct]_vars

\* ------------------------------------------------------------ direct calls
\* The caller calls u.notify(value) itself and keeps what it returns.
CallNotify(u, value) ==
    /\ u \in DOMAIN unit
    /\ LET r == notify(0, u, value)
       IN ret' = [call |-> "notify", unit |-> u, value |-> value,
                  events |-> r.events, result |-> r.result, threw |-> r.threw]
    /\ UNCHANGED <<opts, unit, hstore, qstore, cstore, astore, started, reqs, log, calls>>

\* The caller calls u.fail(value) itself and keeps what it returns.
CallFail(u, value) ==
    /\ u \in DOMAIN unit
    /\ LET r == fail(0, u, value)
       IN ret' = [call |-> "fail", unit |-> u, value |-> value,
                  events |-> r.events, result |-> r.result, threw |-> r.threw]
    /\ UNCHANGED <<opts, unit, hstore, qstore, cstore, astore, started, reqs, log, calls>>

\* a.clone() written to copy the collections: the instance gets a header
\* map, a query map and callback arrays of its own with the source's entries.
CallCloneDeep(a) ==
    /\ calls < MaxCalls
    /\ a \in DOMAIN unit
    /\ unit[a].kind = "api"
    /\ LET c == ApiClone(unit, a, 0 - Cardinality(DOMAIN unit))
       IN /\ unit' = [c.unit EXCEPT ![c.id].headers = c.id, ![c.id].querys = c.id,
                                    ![c.id].success_callbacks = c.id \o ".success",
                                    ![c.id].fail_callbacks = c.id \o ".fail"]
          /\ hstore' = hstore @@ (c.id :> hstore[unit[a].headers])
          /\ qstore' = qstore @@ (c.id :> qstore[unit[a].querys])
          /\ cstore' = cstore @@ (c.id \o ".success" :> cstore[unit[a].success_callbacks])
                              @@ (c.id \o ".fail" :> cstore[unit[a].fail_callbacks])
          /\ ret' = [call |-> "clone", unit |-> a, value |-> NoArg,
                     events |-> <<>>, result |-> <<c.id>>, threw |-> "-"]
    /\ calls' = calls + 1
    /\ UNCHANGED <<opts, astore, started, reqs, log>>

\* The caller calls a.clone() itself and keeps the instance it returns.
\* The instance is named after the number of objects allocated so far,
\* negated to stay apart from the clones start() makes.
CallClone(a) ==
    /\ calls < MaxCalls
    /\ a \in DOMAIN unit
    /\ unit[a].kind = "api"
    /\ LET c == ApiClone(unit, a, 0 - Cardinality(DOMAIN unit))
       IN /\ unit' = c.unit
          /\ ret' = [call |-> "clone", unit |-> a, value |-> NoArg,
                     events |-> <<>>, result |-> <<c.id>>, threw |-> "-"]
    /\ calls' = calls + 1
    /\ UNCHANGED <<opts, hstore, qstore, cstore, astore, started, reqs, log>>

\* The callbacks a caller of notify and fail registers: two that return and
\* one that throws.
DirectCallbacks == Callbacks \cup {"g"}

\* The endpoint and the instances cloned from it.
Instances == {"A1"} \cup (DOMAIN unit \ Units)

\* A caller who registers callbacks on the units of one chain and calls
\* notify and fail directly; nothing is dispatched.
InitCall == InitWith(DefaultPaths, OneChain)

NextCall ==
    \/ \E u \in ChainUnits, cb \in DirectCallbacks :
            addSuccessCallback(u, cb) \/ addFailCallback(u, cb)
    \/ \E u \in ChainUnits :
            CallNotify(u, Response(0, HttpOk)) \/ CallFail(u, Response(0, HttpOk))

SpecCall == InitCall /\ [][NextCall]_vars

\* A caller who clones endpoints, configures the endpoint and its clones,
\* and calls start(); no request completes.
InitClone == InitWith(DefaultPaths, OneChain)

NextClone ==
    \/ \E u \in Instances, cb \in Callbacks :
            addSuccessCallback(u, cb) \/ addFailCallback(u, cb)
    \/ \E u \in Instances, k \in HeaderNames, v \in Values : addHeader(u, k, v)
    \/ \E u \in Instances, k \in QueryKeys, v \in Values : addQuery(u, k, v)
    \/ \E a \in Instances, cb \in ErrorCallbacks \ {"noop"} :
            AssignErrorCallback(a, cb)
    \/ \E a \in Instances, v \in Verifies \ {"default"} : AssignVerify(a, v)
    \/ \E a \in Apis \cup Instances : CallClone(a)
    \/ start

SpecClone == InitClone /\ [][NextClone]_vars

\* -------------------------------------------- configuration after start
\* A caller (or a callback) who goes on calling addHeader, addQuery,
\* addWebSites, addModules and addApis after start() returned, between the
\* completions of the requests.
InitLate == InitWith(DefaultPaths, OneChain)

\* The root and the leaf of the chain.
EndUnits == {Engine, "A1"}

NextLate ==
    \/ \E u \in EndUnits, k \in HeaderNames, v \in Values : addHeader(u, k, v)
    \/ \E u \in EndUnits, k \in QueryKeys, v \in Values : addQuery(u, k, v)
    \/ \E w \in Sites : addWebSites(<<w>>)
    \/ \E w \in Sites, m \in Modules : addModules(w, <<m>>)
    \/ \E m \in Modules, a \in Apis : addApis(m, <<a>>)
    \/ start
    \/ Completion

SpecLate == InitLate /\ [][NextLate]_vars

\* A caller (or a callback) who goes on registering callbacks and assigning
\* verify and error_callback after start() returned, between the
\* completions of the request.
InitLateCallbacks == InitWith(DefaultPaths, OneChain)

NextLateCallbacks ==
    \/ \E u \in ChainUnits, cb \in Callbacks :
            addSuccessCallback(u, cb) \/ addFailCallback(u, cb)
    \/ \E u \in ChainUnits, cb \in ErrorCallbacks \ {"noop"} : AssignErrorCallback(u, cb)
    \/ \E v \in Verifies \ {"default"} : AssignVerify("A1", v)
    \/ start
    \/ Completion

SpecLateCallbacks == InitLateCallbacks /\ [][NextLateCallbacks]_vars

\* ----------------------------------------------------- fair completions
\* The callbacks and verify predicates that return normally.
NormalCallbacks == {cb \in Callbacks : ~Throws(cb)}
NormalVerifies == {v \in Verifies : ~Throws(v)}

\* Two sites with one endpoint each, configured with callbacks that return
\* normally, then started.
InitFair == InitWith(DefaultPaths, TwoSites)

NextFair ==
    \/ ~started /\ \E u \in EndUnits, cb \in NormalCallbacks :
            addSuccessCallback(u, cb) \/ addFailCallback(u, cb)
    \/ ~started /\ \E v \in NormalVerifies \ {"default"} : AssignVerify("A1", v)
    \/ start
    \/ Completion

\* Every transport call eventually returns a response or rejects, and the
\* microtask queue runs every reaction that was queued.
Fairness ==
    \A d \in Dispatches :
        /\ WF_vars(\E status \in Answers : Settle(d, status))
        /\ WF_vars(RunThen(d))
        /\ WF_vars(RunCatch(d))

SpecFair == InitFair /\ [][NextFair]_vars /\ Fairness

\* ------------------------------------------------------------------ claims
\* The levels whose configuration the d-th request is built from, root first.
LevelsOf(d) == <<Engine, reqs[d].webSite, reqs[d].module, reqs[d].api>>

Max(S) == CHOOSE x \in S : \A y \in S : y <= x

HeadersOf(u) == hstore[unit[u].headers]
QuerysOf(u) == qstore[unit[u].querys]

\* The levels of the d-th request that set header `name` (under any
\* spelling), and the value a level holds for it.
HeaderSetAt(d, name) ==
    {i \in 1..4 : \E n \in DOMAIN HeadersOf(LevelsOf(d)[i]) : Lower(n) = Lower(name)}

HeaderValueAt(u, name) ==
    HeadersOf(u)[CHOOSE n \in DOMAIN HeadersOf(u) : Lower(n) = Lower(name)]

\* C1: the headers of every request handed to the transport hold every
\* header set at any of the four levels, with the value of the level nearest
\* the leaf.  (Under SpecMerge the configuration is fixed once start() ran.)
C1_HeaderMerge ==
    \A d \in DOMAIN reqs : \A name \in HeaderNames :
        LET S == HeaderSetAt(d, name)
            h == reqs[d].sent.headers
        IN S # {} =>
            \E n \in DOMAIN h :
                /\ Lower(n) = Lower(name)
                /\ h[n] = HeaderValueAt(LevelsOf(d)[Max(S)], name)

\* C2: the URL of every request handed to the transport is the plain
\* concatenation of the engine's, site's, module's and endpoint's path.
C2_PathConcat ==
    \A d \in DOMAIN reqs :
        reqs[d].sent.url =
            unit[Engine].path \o unit[reqs[d].webSite].path
                \o unit[reqs[d].module].path \o unit[reqs[d].api].path

\* A request built from "https://x", "/s", "", "/e" went out as
\* "https://x/s/e".
C2_Witness ==
    \E d \in DOMAIN reqs :
        /\ unit[Engine].path = "https://x"
        /\ unit[reqs[d].webSite].path = "/s"
        /\ unit[reqs[d].module].path = ""
        /\ unit[reqs[d].api].path = "/e"
        /\ reqs[d].sent.url = "https://x/s/e"

QuerySetAt(d, k) == {i \in 1..4 : k \in DOMAIN QuerysOf(LevelsOf(d)[i])}

\* C3: the query parameters of every request handed to the transport hold
\* exactly the keys set at some level, each with the value of the level
\* nearest the leaf that sets it.
C3_QueryMerge ==
    \A d \in DOMAIN reqs : \A k \in QueryKeys :
        LET S == QuerySetAt(d, k)
            p == reqs[d].sent.params
        IN IF S = {} THEN k \notin DOMAIN p
           ELSE k \in DOMAIN p /\ p[k] = QuerysOf(LevelsOf(d)[Max(S)])[k]

\* A request went out for which two levels set the same key to different
\* values, and it carries the value of the level nearer the leaf.
C3_Witness ==
    \E d \in DOMAIN reqs, k \in QueryKeys :
        \E i \in QuerySetAt(d, k), j \in QuerySetAt(d, k) :
            /\ i < j
            /\ j = Max(QuerySetAt(d, k))
            /\ QuerysOf(LevelsOf(d)[i])[k] # QuerysOf(LevelsOf(d)[j])[k]
            /\ reqs[d].sent.params[k] = QuerysOf(LevelsOf(d)[j])[k]

\* What the tree holds of an endpoint: its path, its header and query
\* objects and their entries, its body.
Canonical(a) ==
    [path |-> unit[a].path, headers |-> unit[a].headers, querys |-> unit[a].querys,
     headerEntries |-> HeadersOf(a), queryEntries |-> QuerysOf(a),
     data |-> unit[a].data]

\* C7: no step of a dispatch (start() issuing the requests, a request
\* settling, a then- or catch-handler running) changes the path, headers,
\* query parameters or body of an endpoint stored in the tree.
C7_CloneIsolation ==
    [][reqs' # reqs => \A a \in Apis : Canonical(a)' = Canonical(a)]_vars

\* A dispatch completed whose endpoint carries headers and query parameters
\* of its own and whose clone was given another path and other maps.
C7_Witness ==
    \E d \in DOMAIN reqs :
        /\ reqs[d].state = "done"
        /\ HeadersOf(reqs[d].api) # EmptyMap
        /\ QuerysOf(reqs[d].api) # EmptyMap
        /\ reqs[d].capi # reqs[d].api
        /\ unit[reqs[d].capi].path # unit[reqs[d].api].path
        /\ unit[reqs[d].capi].headers # unit[reqs[d].api].headers
        /\ unit[reqs[d].capi].querys # unit[reqs[d].api].querys

\* addHeader(name, value) on u took the step: afterwards u holds exactly one
\* entry for the name, with the value; the other entries are as before; the
\* same call again would change nothing.
HeaderUpsert(u, name, value) ==
    LET h0 == hstore[unit[u].headers]
        h1 == hstore'[unit[u].headers]
        same(n) == Lower(n) = Lower(name)
    IN /\ Cardinality({n \in DOMAIN h1 : same(n)}) = 1
       /\ \A n \in DOMAIN h1 : same(n) => h1[n] = value
       /\ {n \in DOMAIN h1 : ~same(n)} = {n \in DOMAIN h0 : ~same(n)}
       /\ \A n \in DOMAIN h0 : ~same(n) => h1[n] = h0[n]
       /\ AxiosHeadersSet(h1, name, value) = h1
       /\ \A r \in DOMAIN hstore : r # unit[u].headers => hstore'[r] = hstore[r]

\* The same of addQuery(key, value), whose keys are compared exactly.
QueryUpsert(u, key, value) ==
    LET q0 == qstore[unit[u].querys]
        q1 == qstore'[unit[u].querys]
    IN /\ DOMAIN q1 = DOMAIN q0 \cup {key}
       /\ q1[key] = value
       /\ \A k \in DOMAIN q0 : k # key => q1[k] = q0[k]
       /\ MapSet(q1, key, value) = q1
       /\ \A r \in DOMAIN qstore : r # unit[u].querys => qstore'[r] = qstore[r]

\* C10: on every level addHeader and addQuery are upserts: after the call
\* the unit holds exactly one entry for the key, with the value given last;
\* entries of other keys are unchanged; repeating the call changes nothing.
C10_Upsert ==
    [][/\ \A u \in Units, n \in HeaderNames, v \in Values :
            addHeader(u, n, v) => HeaderUpsert(u, n, v)
       /\ \A u \in Units, k \in QueryKeys, v \in Values :
            addQuery(u, k, v) => QueryUpsert(u, k, v)]_vars

\* Two calls were made and all they left is one header entry on the engine
\* and nothing else: the second call hit the entry of the first.
C10_Witness ==
    /\ calls = 2
    /\ \E n \in HeaderNames : HeadersOf(Engine) = (n :> "b")
    /\ \A u \in Units \ {Engine} : HeadersOf(u) = EmptyMap
    /\ \A u \in Units : QuerysOf(u) = EmptyMap /\ unit[u].path = DefaultPaths[u]
\* The calls made for the d-th dispatch, in the order they were made.
EventsOf(d) == SelectSeq(log, LAMBDA e : e.d = d)

\* The calls of `seq` whose operation is in `ops`.
Only(seq, ops) == SelectSeq(seq, LAMBDA e : e.op \in ops)

UnitsIn(seq) == [i \in DOMAIN seq |-> seq[i].unit]
CallbacksIn(seq) == [i \in DOMAIN seq |-> seq[i].cb]

\* The levels of the d-th dispatch, leaf first.
LeafToRoot(d) == <<reqs[d].api, reqs[d].module, reqs[d].webSite, Engine>>

\* The handlers of the d-th dispatch have run to their end.
Finished(d) == reqs[d].state \in {"done", "unhandled"}

\* The verdict of the verify predicate v on a response with `status`.
Accepts(v, status) == v = "always" \/ (v = "default" /\ status = HttpOk)

\* The transport call of d returned a response that d's verify accepts.
Verified(d) ==
    /\ reqs[d].settled.t = "response"
    /\ Accepts(unit[reqs[d].api].verify, reqs[d].settled.status)

\* The calls of one level u of a fan-out: op(value) on u, then each of u's
\* callbacks `cbField`, logged as `cbOp`, in array order.
LevelCalls(d, u, op, cbOp, cbField, value) ==
    LET cbs == cstore[unit[u][cbField]]
    IN <<Event(d, u, op, "-", value)>>
        \o [i \in DOMAIN cbs |-> Event(d, u, cbOp, cbs[i], value)]

\* `op` was called with `value` on the four levels of d, leaf to root, once
\* each, and each level ran exactly its own callbacks, in array order.
FannedOut(d, op, cbOp, cbField, value) ==
    Only(EventsOf(d), {op, cbOp}) =
        LevelCalls(d, LeafToRoot(d)[1], op, cbOp, cbField, value)
            \o LevelCalls(d, LeafToRoot(d)[2], op, cbOp, cbField, value)
            \o LevelCalls(d, LeafToRoot(d)[3], op, cbOp, cbField, value)
            \o LevelCalls(d, LeafToRoot(d)[4], op, cbOp, cbField, value)

\* C4: once the then-handler of a dispatch whose response verify accepts has
\* run, notify(r) was called on the endpoint, the module, the site and the
\* engine in that order, each level ran its success callbacks in insertion
\* order, and no fail callback ran for r.
C4_NotifyFanOut ==
    \A d \in DOMAIN reqs :
        Verified(d) /\ reqs[d].state # "then" =>
            /\ FannedOut(d, "notify", "success_callback", "success_callbacks",
                         reqs[d].settled)
            /\ Only(EventsOf(d), {"fail", "fail_callback"}) = <<>>

\* C5: once a dispatch answered with status 404, whose endpoint has the
\* default verify, has finished, fail(r) was called on the endpoint, the
\* module, the site and the engine in that order, and neither a success
\* callback nor an error_callback ran for it.
C5_FailFanOutOn404 ==
    \A d \in DOMAIN reqs :
        /\ Finished(d)
        /\ reqs[d].settled.status = 404
        /\ unit[reqs[d].api].verify = "default"
        => /\ UnitsIn(Only(EventsOf(d), {"fail"})) = LeafToRoot(d)
           /\ Only(EventsOf(d), {"notify", "success_callback", "error_callback"}) = <<>>

\* C6: once a dispatch whose transport call rejected has finished, verify,
\* notify and fail were called on no level for it, and error_callback(e) was
\* called exactly once on each of the four levels, leaf to root.
C6_ErrorFanOut ==
    \A d \in DOMAIN reqs :
        Finished(d) /\ reqs[d].settled.t = "AxiosError" =>
            /\ Only(EventsOf(d), {"verify", "notify", "fail",
                                  "success_callback", "fail_callback"}) = <<>>
            /\ UnitsIn(EventsOf(d)) = LeafToRoot(d)
            /\ \A i \in DOMAIN EventsOf(d) : EventsOf(d)[i].arg = reqs[d].settled

\* The fan-outs started for the d-th dispatch.
FanOutsOf(d) ==
    {EventsOf(d)[i].op : i \in DOMAIN EventsOf(d)} \cap {"notify", "fail", "error_callback"}

\* The (site, module, endpoint) attachments of the tree, by position.
PathAt(pos) ==
    LET s == astore[unit[Engine].children][pos[1]]
        m == astore[unit[s].children][pos[2]]
    IN <<s, m, astore[unit[m].children][pos[3]]>>

PathOfReq(d) == <<reqs[d].webSite, reqs[d].module, reqs[d].api>>

\* C8: whatever happens to one dispatch (its response fails verification,
\* its transport call rejects, one of its callbacks throws), the request of
\* every other path was issued by start(), and the calls made for a dispatch
\* go to its own four levels with its own response or error only; which
\* fan-out a dispatch performs follows from its own transport outcome, its
\* own endpoint's verify and an exception thrown by its own handlers.
C8_Independence ==
    /\ started => \A pos \in Positions : \E d \in DOMAIN reqs : PathOfReq(d) = PathAt(pos)
    /\ \A i \in DOMAIN log :
        /\ log[i].d \in DOMAIN reqs
        /\ log[i].unit \in {LeafToRoot(log[i].d)[n] : n \in 1..4}
        /\ log[i].arg.d = log[i].d
    /\ \A d \in DOMAIN reqs :
        LET v == unit[reqs[d].api].verify
            s == reqs[d].settled
            F == FanOutsOf(d)
            thrown == reqs[d].value.t = "thrown"
        IN /\ "notify" \in F => Verified(d)
           /\ "fail" \in F => s.t = "response" /\ ~Verified(d) /\ ~Throws(v)
           /\ "error_callback" \in F => s.t = "AxiosError" \/ thrown
           /\ thrown => \E i \in DOMAIN EventsOf(d) : EventsOf(d)[i].cb = reqs[d].value.by
           /\ Finished(d) /\ Verified(d) => "notify" \in F
           /\ Finished(d) /\ s.t = "response" /\ ~Verified(d) /\ ~Throws(v) => "fail" \in F
           /\ Finished(d) /\ s.t = "AxiosError" => F = {"error_callback"}

\* The first dispatch to complete ended with an exception nobody handles,
\* and the other then ran its notify fan-out up to the engine.
C8_Witness ==
    \E d1, d2 \in DOMAIN reqs :
        /\ d1 # d2
        /\ reqs[d1].state = "unhandled"
        /\ reqs[d2].state = "done"
        /\ FanOutsOf(d2) = {"notify"}
        /\ log[1].d = d1
        /\ log[Len(log)].d = d2
        /\ log[Len(log)].unit = Engine

\* C9: start() issues exactly one request per attachment position: as many
\* requests as the sum, over the sites and their modules, of the module's
\* endpoint count, and each path as often as it is attached.
C9_OnePerPath ==
    started =>
        /\ Len(reqs) = Cardinality(Positions)
        /\ \A pos \in Positions :
            Cardinality({d \in DOMAIN reqs : PathOfReq(d) = PathAt(pos)})
                = Cardinality({q \in Positions : PathAt(q) = PathAt(pos)})
        /\ \A d \in DOMAIN reqs : \E pos \in Positions : PathOfReq(d) = PathAt(pos)

\* start() ran on a tree in which one endpoint is attached under two
\* parents, and issued a request for each attachment.
C9_Witness ==
    /\ started
    /\ \E d1, d2 \in DOMAIN reqs :
        /\ d1 # d2
        /\ reqs[d1].api = reqs[d2].api
        /\ <<reqs[d1].webSite, reqs[d1].module>> # <<reqs[d2].webSite, reqs[d2].module>>


\* ------------------------------------------------------------------- C11
\* The calls notify or fail makes on its callbacks, without the entry of
\* the call itself.
CallbackCalls(events) == Only(events, {"success_callback", "fail_callback"})

\* One call of cbOp per entry of the callback array cbs, in array order,
\* each with value.
OncePerRegistration(u, cbOp, cbs, value) ==
    [i \in 1..Len(cbs) |-> Event(0, u, cbOp, cbs[i], value)]

\* What the caller of u.notify(value) / u.fail(value) must see, given the
\* unit's callback array cbs of that kind.
RanAll(u, cbOp, cbs, value) ==
    /\ CallbackCalls(ret'.events) = OncePerRegistration(u, cbOp, cbs, value)
    /\ ret'.threw = "-"
    /\ ret'.result = [i \in 1..Len(cbs) |-> Returned(cbs[i], value)]

\* C11: On every level notify(r) invokes each registered success callback
\* once per registration, in insertion order, with r, invokes no fail
\* callback, and returns the callbacks' return values in that order;
\* fail(r) does the same over the fail callbacks.
C11_NotifyRunsAll ==
    [][\A u \in ChainUnits :
          /\ CallNotify(u, Response(0, HttpOk)) =>
                RanAll(u, "success_callback",
                       cstore[unit[u].success_callbacks], Response(0, HttpOk))
          /\ CallFail(u, Response(0, HttpOk)) =>
                RanAll(u, "fail_callback",
                       cstore[unit[u].fail_callbacks], Response(0, HttpOk))]_vars

\* ------------------------------------------------------------------- C12
\* The fields of an Api that clone() passes to the constructor.
ApiFields ==
    {"path", "method", "headers", "querys", "success_callbacks",
     "fail_callbacks", "error_callback", "verify", "data", "name", "description"}

Fields(u, id) == [f \in ApiFields |-> u[id][f]]

\* C12: clone() returns a new Api, distinct from the source and from every
\* existing object, whose path, method, headers, querys, callback arrays,
\* error_callback, verify, data, name and description equal the source's;
\* the source and every other object stay as they were.
C12_CloneEqualsSource ==
    [][\A a \in Apis \cup Instances :
          CallClone(a) =>
            LET c == ret'.result[1]
            IN /\ c \notin DOMAIN unit
               /\ c \in DOMAIN unit'
               /\ Fields(unit', c) = Fields(unit, a)
               /\ \A u \in DOMAIN unit : unit'[u] = unit[u]
               /\ UNCHANGED <<hstore, qstore, cstore, astore>>]_vars

\* A clone was returned of an endpoint that has a body, or whose verify or
\* error_callback was assigned before.
C12_Witness ==
    /\ ret.call = "clone"
    /\ ret.result[1] \in DOMAIN unit
    /\ \/ unit[ret.result[1]].data = "payload"
       \/ unit[ret.result[1]].verify # "default"
       \/ unit[ret.result[1]].error_callback # "noop"

\* ------------------------------------------------------------------- C13
\* C13: start() never waits for a completion: the one step it takes issues
\* the request of every path of the tree, all of them still pending and no
\* handler run, so every request is issued even if none ever completes.
C13_StartNeverWaits ==
    [][(~started /\ started') =>
          /\ \A pos \in Positions' : \E d \in DOMAIN reqs' : PathOfReq(d)' = PathAt(pos)'
          /\ \A d \in DOMAIN reqs' : reqs'[d].state = "pending"
          /\ log' = log]_vars

\* Completions arrive in an order other than the order of issue: the
\* second request has run its handlers while the first, issued before it,
\* has not completed.
C13_Witness ==
    /\ Len(reqs) = 2
    /\ reqs[1].state = "pending"
    /\ reqs[2].state = "done"
    /\ \E i \in DOMAIN log : log[i].d = 2

\* ------------------------------------------------------------------- C14
\* C14: the fan-out for one response or error runs as one block: the calls
\* made for the same response (or error) of a dispatch, from the first at
\* its endpoint to the last at the engine, are consecutive in the order of
\* execution, so no call made for another dispatch is executed between
\* them, whatever the order of completions.
C14_FanOutAtomic ==
    \A i, k \in DOMAIN log :
        (i < k /\ log[i].d = log[k].d /\ log[i].arg = log[k].arg) =>
            log[i + 1].d = log[i].d /\ log[i + 1].arg = log[i].arg

\* Two dispatches completed, the one issued second fanned out first; the
\* fan-out of the first ran callbacks from its endpoint up to the engine.
C14_Witness ==
    /\ Len(reqs) = 2
    /\ reqs[1].state = "done"
    /\ reqs[2].state = "done"
    /\ log[1].d = 2
    /\ log[Len(log)] = Event(1, Engine, "success_callback", "f", reqs[1].settled)
    /\ \E i \in DOMAIN log :
            log[i] = Event(1, reqs[1].api, "success_callback", "f", reqs[1].settled)
    /\ \E i \in DOMAIN log : log[i].d = 2 /\ log[i].unit = Engine

\* ------------------------------------------------------------------- C15
Children(p) == astore[unit[p].children]

\* C15: each parent exclusively owns its children list: a call of addApis,
\* addModules or addWebSites changes the children of the one parent it is
\* called on and of no other parent, however the parents were constructed,
\* and changes no array the caller passed to a constructor.
C15_OwnChildren ==
    [][astore' # astore =>
          /\ \E p \in Parents : \A q \in Parents \ {p} : Children(q)' = Children(q)
          /\ \A r \in CallerArrays \cap DOMAIN astore : astore'[r] = astore[r]]_vars

\* ------------------------------------------------------------------- C16
\* c is an instance a.clone() returned to the caller.
ClonedFrom(c, a) ==
    \E n \in 1..Cardinality(DOMAIN unit) : c = CloneId(a, 0 - n)

\* The step appends cb to the array `ref` of callbacks.
Pushed(ref, cb) == cstore'[ref] = Append(cstore[ref], cb)

C17_BodyAndMethodAsGiven ==
    \A d \in DOMAIN reqs :
        /\ reqs[d].sent.method = opts[reqs[d].api].method
        /\ reqs[d].sent.data =
                IF opts[reqs[d].api].data = "undefined" THEN "{}"
                ELSE opts[reqs[d].api].data

\* ------------------------------------------------------------------- C18
\* C18: an engine constructed from a configuration object whose path option
\* is p has the path fragment p, and p is the prefix of the URL of every
\* request it dispatches.
C18_EnginePathOption ==
    /\ ~started => unit[Engine].path = opts[Engine].path
    /\ \A d \in DOMAIN reqs :
        reqs[d].sent.url =
            opts[Engine].path \o unit[reqs[d].webSite].path
                \o unit[reqs[d].module].path \o unit[reqs[d].api].path

\* ------------------------------------------------------------------- C19
\* C19: exactly one outcome is reported per dispatch: at most one of the
\* fan-outs notify, fail and error_callback is started for it, a finished
\* dispatch has started one, and error_callback is called only if the
\* transport call itself rejected, never after it returned a response, not
\* even when verify or a success or fail callback throws.
C19_OneOutcome ==
    \A d \in DOMAIN reqs :
        /\ Cardinality(FanOutsOf(d)) <= 1
        /\ Finished(d) => Cardinality(FanOutsOf(d)) = 1
        /\ "error_callback" \in FanOutsOf(d) => reqs[d].settled.t = "AxiosError"

\* ------------------------------------------------------------------- C20
\* The d-th dispatch called op on the unit u.
Called(d, op, u) ==
    \E i \in DOMAIN log : log[i].d = d /\ log[i].op = op /\ log[i].unit = u

\* C20: a fan-out reaches all four levels or none: once notify (fail,
\* error_callback) was called on the endpoint of a dispatch, it is called
\* on its module, its site and the engine too, even if a callback of a
\* lower level throws.
C20_AllLevelsOrNone ==
    \A d \in DOMAIN reqs : \A op \in {"notify", "fail", "error_callback"} :
        Called(d, op, reqs[d].api) =>
            /\ Called(d, op, reqs[d].module)
            /\ Called(d, op, reqs[d].webSite)
            /\ Called(d, op, Engine)

\* ------------------------------------------------------------------- C21
\* The request of the d-th dispatch as the transport reads it now from the
\* objects it was handed.
RequestOf(d) == HTTPClient_do(unit, hstore, qstore, reqs[d].capi)

\* C21: no callback runs before start() has issued the request of every
\* path: the step of start() issues them all, each built from the paths and
\* querys of the tree as they are at that step, and no call is logged
\* before it; from then on no step, whether a completion or an addHeader,
\* addQuery, addApis, addModules or addWebSites made after start()
\* returned, adds a request or changes one that was issued.
C21_RequestsFixedAtStart ==
    [][/\ log' # log => started
       /\ (~started /\ started') =>
            /\ \A pos \in Positions : \E d \in DOMAIN reqs' : PathOfReq(d)' = PathAt(pos)
            /\ \A d \in DOMAIN reqs' :
                /\ reqs'[d].sent.url = JoinPaths(unit, LevelsOf(d)')
                /\ reqs'[d].sent.params = SetEach(EmptyMap, unit, qstore, LevelsOf(d)')
                /\ RequestOf(d)' = reqs'[d].sent
       /\ started =>
            /\ Len(reqs') = Len(reqs)
            /\ \A d \in DOMAIN reqs :
                /\ reqs'[d].sent = reqs[d].sent
                /\ RequestOf(d)' = RequestOf(d)]_vars

\* After start() the endpoint got a query parameter its request does not
\* carry and the tree got a path no request was issued for, and the one
\* request of the run completed and fanned out.
C21_Witness ==
    /\ started
    /\ Len(reqs) = 1
    /\ Finished(1)
    /\ log # <<>>
    /\ DOMAIN QuerysOf(reqs[1].api) # {}
    /\ reqs[1].sent.params = EmptyMap
    /\ Cardinality(Positions) > Len(reqs)

\* ------------------------------------------------------------------- C22
\* The calls the step logs.
Logged == SubSeq(log', Len(log) + 1, Len(log'))

\* The calls of a fan-out of op over the four levels of d, leaf to root,
\* each level with the callbacks `cbField` it has before the step.
FanOutNow(d, op, cbOp, cbField, value) ==
    LevelCalls(d, LeafToRoot(d)[1], op, cbOp, cbField, value)
        \o LevelCalls(d, LeafToRoot(d)[2], op, cbOp, cbField, value)
        \o LevelCalls(d, LeafToRoot(d)[3], op, cbOp, cbField, value)
        \o LevelCalls(d, LeafToRoot(d)[4], op, cbOp, cbField, value)

\* C22: the fan-out uses the callbacks, verify and error_callback of the
\* canonical units as they are when the response arrives: the step of the
\* then-handler calls the verify the endpoint has at that step and then
\* every success (or fail) callback the four levels have at that step,
\* those added after start() issued the request included; the step of the
\* catch-handler for a rejected transport call calls the error_callback
\* each of the four levels has at that step.
C22_ReadAtCompletion ==
    [][\A d \in DOMAIN reqs :
          LET a == reqs[d].api
              r == reqs[d].value
          IN /\ (reqs[d].state = "then" /\ reqs'[d].state # "then") =>
                    /\ Only(Logged, {"verify"}) = <<Event(d, a, "verify", unit[a].verify, r)>>
                    /\ Accepts(unit[a].verify, r.status) =>
                            Only(Logged, {"notify", "success_callback"}) =
                                FanOutNow(d, "notify", "success_callback",
                                          "success_callbacks", r)
                    /\ (~Accepts(unit[a].verify, r.status) /\ ~Throws(unit[a].verify)) =>
                            Only(Logged, {"fail", "fail_callback"}) =
                                FanOutNow(d, "fail", "fail_callback", "fail_callbacks", r)
             /\ (reqs[d].state = "catch" /\ reqs'[d].state # "catch"
                    /\ r.t = "AxiosError") =>
                    Logged = [i \in 1..4 |->
                                Event(d, LeafToRoot(d)[i], "error_callback",
                                      unit[LeafToRoot(d)[i]].error_callback, r)]]_vars

\* ------------------------------------------------------------------- C23
FanOutOps == {"notify", "fail", "error_callback"}

\* The handlers of d have finished and made exactly one fan-out for it, which
\* called its operation once on each of the four levels, leaf to root.
CompleteFanOut(d) ==
    /\ d \in DOMAIN reqs
    /\ Finished(d)
    /\ \E op \in FanOutOps :
        /\ FanOutsOf(d) = {op}
        /\ UnitsIn(Only(EventsOf(d), {op})) = LeafToRoot(d)

\* The fan-outs the engine level has observed.
EngineFanOuts == Len(SelectSeq(log, LAMBDA e : e.unit = Engine /\ e.op \in FanOutOps))

\* C23: if every transport call eventually returns a response or rejects
\* and the callbacks return normally, every request start() issued is
\* eventually followed by exactly one complete leaf-to-root fan-out (notify,
\* fail or error_callback on all four levels), for good, and the engine
\* never observes more fan-outs than requests and in the end exactly as many.
C23_EveryRequestFansOut ==
    /\ \A d \in Dispatches : (d \in DOMAIN reqs) ~> [](CompleteFanOut(d))
    /\ [](EngineFanOuts <= Len(reqs))
    /\ started ~> [](EngineFanOuts = Len(reqs))

\* Both requests of the run were followed by a complete fan-out, one of them
\* after the transport rejected, and the engine observed two fan-outs.
C23_Witness ==
    /\ Len(reqs) = 2
    /\ CompleteFanOut(1)
    /\ CompleteFanOut(2)
    /\ reqs[1].settled.t = "AxiosError"
    /\ reqs[2].settled.t = "response"
    /\ EngineFanOuts = 2

====
